---- MODULE Spec2Model ----
(***************************************************************************)
(* The production server of lux-quiz (server/index.cjs): the request       *)
(* pipeline (request id, hardening headers, body parsing, CSP header, CSP  *)
(* report intake behind a rate limiter, health check, static assets with   *)
(* history fallback, terminal error handler), the hourly flush of the      *)
(* violation aggregate, and the graceful shutdown on SIGTERM / SIGINT.     *)
(***************************************************************************)
EXTENDS Integers, Sequences, FiniteSets, TLC

VARIABLES
    violationStats,  \* [total, byDirective]: byDirective is the Map, as the
                     \* sequence of its entries in insertion order
    hits,            \* cspLimiter's store: client -> hits in the current window
    posts,           \* history: client -> POSTs to /__cspreport__ sent in that window
    conns,           \* [active, idle]: connections with a request in flight / kept alive
    listening,       \* the listener accepts connections
    closeCallbacks,  \* callbacks of server.close() waiting for the 'close' event
    exited,          \* process.exit() was called
    exitCode,        \* ... with this status
    uuids,           \* number of randomUUID() calls so far
    req,             \* the request handled by the latest step (NoRequest if none)
    res,             \* the response written by the latest step (NoResponse if none)
    logged,          \* the log lines emitted by the latest step
    raised           \* the call that raised an error in the latest step ("" if none)

vars == <<violationStats, hits, posts, conns, listening, closeCallbacks,
          exited, exitCode, uuids, req, res, logged, raised>>

----------------------------------------------------------------------------
(* Bounds of the model. *)

MaxConns == 2       \* connections open at the same time
MaxSignals == 2     \* termination signals delivered
MaxTotal == 2       \* violations recorded between two flushes
MaxUuids == 2       \* requests that need a generated id
MaxPosts == 2       \* POSTs to /__cspreport__ per client and window, under Spec
MaxMalformed == 1   \* unparsable POSTs per client and window, under SpecLimiter
MaxOver == 2        \* POSTs beyond the quota per client and window, under SpecLimiter

(* Program constants. *)

RateLimitMax == 100         \* max: 100
StaticMaxAgeSec == 86400    \* maxAge: "1d"

----------------------------------------------------------------------------
(* JavaScript values, as far as the server looks at them.  A primitive is   *)
(* [t, v]: its type tag and its string form.  A value found under a key of  *)
(* the parsed body is [t, v, vd]: vd is its "violated-directive" property   *)
(* (a primitive), present only when the value is an object.                 *)

JsUndefined == [t |-> "undefined", v |-> "undefined"]
JsNull == [t |-> "null", v |-> "null"]
JsString(s) == [t |-> "string", v |-> s]
JsNumber(s) == [t |-> "number", v |-> s]

Prim(p) == [t |-> p.t, v |-> p.v, vd |-> JsUndefined]
JsArray == [t |-> "array", v |-> "", vd |-> JsUndefined]
JsObject(d) == [t |-> "object", v |-> "[object Object]", vd |-> d]

\* ToBoolean: what  x && ...  and  x || ...  test
Truthy(x) ==
    CASE x.t = "undefined" -> FALSE
      [] x.t = "null" -> FALSE
      [] x.t = "string" -> x.v # ""
      [] x.t = "number" -> x.v \notin {"0", "NaN"}
      [] OTHER -> TRUE

\* typeof x
TypeOf(x) ==
    CASE x.t \in {"null", "array", "object"} -> "object"
      [] OTHER -> x.t

\* x?.["violated-directive"]
ViolatedDirectiveOf(x) == IF x.t = "object" THEN x.vd ELSE JsUndefined

\* a || b
Or(a, b) == IF Truthy(a) THEN a ELSE b

----------------------------------------------------------------------------
(* Requests.  body.kind is what express.json makes of the request body:     *)
(*   "none"       no body, or not a JSON content type: req.body is empty    *)
(*   "malformed"  the parser raises (syntax error, or more than 50kb)       *)
(*   "array"      a JSON array                                              *)
(*   "object"     a JSON object; cr, cu are its values under "csp-report"   *)
(*                and "csp_report" (JsUndefined when the key is absent)     *)

Body(kind, cr, cu) == [kind |-> kind, cr |-> cr, cu |-> cu]
NoBody == Body("none", Prim(JsUndefined), Prim(JsUndefined))
MalformedBody == Body("malformed", Prim(JsUndefined), Prim(JsUndefined))
ArrayBody == Body("array", Prim(JsUndefined), Prim(JsUndefined))
ObjectBody(cr, cu) == Body("object", cr, cu)

\* A path is its segments and whether it ends with a slash.
Path(segs, slash) == [segs |-> segs, slash |-> slash]
RootPath == Path(<<>>, TRUE)
HealthPath == Path(<<"health">>, FALSE)
ReportPath == Path(<<"__cspreport__">>, FALSE)

Request(client, method, path, requestId, body) ==
    [client |-> client, method |-> method, path |-> path,
     requestId |-> requestId, body |-> body]

NoRequest == Request("", "", Path(<<>>, FALSE), JsUndefined, NoBody)

IsReportPost(r) == r.method = "POST" /\ r.path = ReportPath

----------------------------------------------------------------------------
(* Responses and log lines.  A header that is not set is the empty string   *)
(* (the empty set for Cache-Control, whose value is kept as its set of      *)
(* directives).                                                             *)

NoResponse ==
    [status |-> 0, body |-> "", requestId |-> "", hardened |-> FALSE,
     csp |-> "", cspReportOnly |-> "", cacheControl |-> {}, pragma |-> "",
     expires |-> "", location |-> "", rateLimitHeaders |-> FALSE]

LogLine(level, msg, reqId, directive, total, byDirective) ==
    [level |-> level, msg |-> msg, reqId |-> reqId, directive |-> directive,
     total |-> total, byDirective |-> byDirective]

\* randomUUID(): the n-th call returns the n-th of pairwise different identifiers
randomUUID(n) == JsString("uuid-" \o ToString(n))

----------------------------------------------------------------------------
(* The violation aggregate: a Map keeps its entries in insertion order and  *)
(* compares keys by value and type (the string "1" and the number 1 are two *)
(* keys).                                                                   *)

MapHas(m, k) == \E i \in 1..Len(m) : m[i].key = k

\* m.get(k) || 0
MapGet(m, k) ==
    IF MapHas(m, k) THEN m[CHOOSE i \in 1..Len(m) : m[i].key = k].count ELSE 0

\* m.set(k, n)
MapSet(m, k, n) ==
    IF MapHas(m, k)
    THEN [i \in 1..Len(m) |-> IF m[i].key = k THEN [key |-> k, count |-> n] ELSE m[i]]
    ELSE Append(m, [key |-> k, count |-> n])

\* Object.fromEntries(m): property keys are strings, and a later entry
\* overwrites an earlier one whose key has the same string form
ObjectFromEntries(m) ==
    {[k |-> m[i].key.v, n |-> m[i].count] :
        i \in {j \in 1..Len(m) : \A l \in (j+1)..Len(m) : m[l].key.v # m[j].key.v}}

\* validateCSPReport(body): the value of the && / || chain, as a boolean
validateCSPReport(body) ==
    /\ body.kind \in {"array", "object"}
    /\ \/ Truthy(body.cr) /\ TypeOf(body.cr) = "object"
       \/ Truthy(body.cu) /\ TypeOf(body.cu) = "object"

\* the directive logViolation counts:
\*   v = violation["csp-report"] || violation["csp_report"] || violation
\*   directive = v?.["violated-directive"] || "unknown"
\* (the body itself has no "violated-directive" among the bodies modelled)
DirectiveOf(body) ==
    LET v == Or(body.cr, Or(body.cu, JsObject(JsUndefined)))
    IN  Or(ViolatedDirectiveOf(v), JsString("unknown"))

\* Mutant of logViolation: the count of the directive is set to 1, not added to.
logViolationOverwrites(stats, body) ==
    LET directive == DirectiveOf(body)
    IN  [total |-> stats.total + 1,
         byDirective |-> MapSet(stats.byDirective, directive, 1)]

\* logViolation's update of violationStats
logViolation(stats, body) ==
    LET directive == DirectiveOf(body)
    IN  [total |-> stats.total + 1,
         byDirective |-> MapSet(stats.byDirective, directive,
                                MapGet(stats.byDirective, directive) + 1)]

----------------------------------------------------------------------------
(* The middleware stack, in the order it is mounted.  A stage maps the      *)
(* response built so far to the response it leaves.                         *)

\* Mutant of RequestIdOf: the identifier is generated once, not per request.
RequestIdOfGeneratedOnce(r, n) == Or(r.requestId, randomUUID(1))

\* req.id = req.headers["x-request-id"] || randomUUID()
RequestIdOf(r, n) == Or(r.requestId, randomUUID(n + 1))

\* res.setHeader("X-Request-Id", req.id)
requestIdMiddleware(rs, r, n) == [rs EXCEPT !.requestId = RequestIdOf(r, n).v]

\* helmet({contentSecurityPolicy: false, ...}): the hardening headers, no CSP
helmetMiddleware(rs) == [rs EXCEPT !.hardened = TRUE]

\* express.json(...) raises on this request
BodyParserRaises(r) == r.body.kind = "malformed"

\* Mutant of cspDirectives: the list without child-src.
cspDirectivesNoChildSrc ==
    <<"default-src 'self'", "base-uri 'self'", "object-src 'none'",
      "img-src 'self' data: blob:", "font-src 'self' data:",
      "style-src 'self' 'unsafe-inline'", "script-src 'self'",
      "connect-src 'self'", "worker-src 'self' blob:", "media-src 'self' blob:",
      "form-action 'self'", "frame-ancestors 'none'", "manifest-src 'self'",
      "upgrade-insecure-requests", "trusted-types vue",
      "report-uri /__cspreport__">>

cspDirectives ==
    <<"default-src 'self'", "base-uri 'self'", "object-src 'none'",
      "img-src 'self' data: blob:", "font-src 'self' data:",
      "style-src 'self' 'unsafe-inline'", "script-src 'self'",
      "connect-src 'self'", "worker-src 'self' blob:", "media-src 'self' blob:",
      "form-action 'self'", "frame-ancestors 'none'", "manifest-src 'self'",
      "upgrade-insecure-requests", "child-src 'none'", "trusted-types vue",
      "report-uri /__cspreport__">>

\* [...].join("; ")
RECURSIVE Join(_, _)
Join(seq, sep) ==
    IF Len(seq) = 0 THEN ""
    ELSE IF Len(seq) = 1 THEN seq[1]
    ELSE seq[1] \o sep \o Join(Tail(seq), sep)

\* res.removeHeader("Content-Security-Policy-Report-Only");
\* res.setHeader("Content-Security-Policy", cspDirectives)
cspHeaderValue == Join(cspDirectives, "; ")

cspMiddleware(rs) == [rs EXCEPT !.cspReportOnly = "", !.csp = cspHeaderValue]

\* cspLimiter: the hit is counted, then compared with max
LimiterRejects(h) == h + 1 > RateLimitMax

\* standardHeaders: true: RateLimit-* on every response that went through it
limiterHeaders(rs) == [rs EXCEPT !.rateLimitHeaders = TRUE]

rateLimited(rs) ==
    [rs EXCEPT !.status = 429, !.body = "Too many requests, please try again later."]

\* res.status(400).json({ error: "invalid csp report" })
invalidReport(rs) == [rs EXCEPT !.status = 400, !.body = "{\"error\":\"invalid csp report\"}"]

\* res.status(204).end()
acceptedReport(rs) == [rs EXCEPT !.status = 204]

\* res.status(200).json({ status: "ok" })
health(rs) == [rs EXCEPT !.status = 200, !.body = "{\"status\":\"ok\"}"]

----------------------------------------------------------------------------
(* Static assets: dist/spa mounted at /quiz.                                *)

StaticFiles == {<<"index.html">>, <<"assets", "app.js">>}
StaticDirs == {<<>>, <<"assets">>}

UnderMount(path) == Len(path.segs) >= 1 /\ path.segs[1] = "quiz"

\* the file express.static answers path with, or <<>> when it answers with none
StaticFileFor(path) ==
    LET rel == Tail(path.segs)
    IN  IF rel \in StaticFiles /\ ~path.slash THEN rel
        ELSE IF rel \in StaticDirs /\ path.slash /\ Append(rel, "index.html") \in StaticFiles
        THEN Append(rel, "index.html")
        ELSE <<>>

\* express.static redirects a directory asked for without its trailing slash
StaticRedirects(path) == Tail(path.segs) \in StaticDirs /\ ~path.slash

\* send's redirect: 301, and a policy of its own
staticRedirect(rs, path) ==
    [rs EXCEPT !.status = 301, !.location = "/" \o Join(path.segs, "/") \o "/",
               !.csp = "default-src 'none'"]

\* Mutant of staticFile: setHeaders treats every file as the entry document.
staticFileNeverCached(rs, file) ==
    [rs EXCEPT !.status = 200, !.body = Join(file, "/"),
               !.cacheControl = {"no-store", "no-cache", "must-revalidate",
                                 "proxy-revalidate"},
               !.pragma = "no-cache", !.expires = "0"]

\* setHeaders, then send's own Cache-Control where none is set yet
staticFile(rs, file) ==
    IF file[Len(file)] = "index.html"
    THEN [rs EXCEPT !.status = 200, !.body = Join(file, "/"),
                    !.cacheControl = {"no-store", "no-cache", "must-revalidate",
                                      "proxy-revalidate"},
                    !.pragma = "no-cache", !.expires = "0"]
    ELSE [rs EXCEPT !.status = 200, !.body = Join(file, "/"),
                    !.cacheControl = {"public", "max-age=" \o ToString(StaticMaxAgeSec)}]

\* app.get(/^\/quiz\/.*/): the path starts with "/quiz/"
FallbackMatches(path) == UnderMount(path) /\ (Len(path.segs) > 1 \/ path.slash)

\* res.sendFile(path.join(distSpa, "index.html")): no options, send's defaults
historyFallback(rs) ==
    [rs EXCEPT !.status = 200, !.body = "index.html",
               !.cacheControl = {"public", "max-age=0"}]

\* res.redirect("/quiz/")
rootRedirect(rs) == [rs EXCEPT !.status = 302, !.location = "/quiz/"]

\* no route matched: express answers 404 itself, with a policy of its own
notFound(rs) == [rs EXCEPT !.status = 404, !.body = "Not Found",
                           !.csp = "default-src 'none'"]

\* res.status(500).json({ error: "Internal Server Error" })
errorHandler(rs) ==
    [rs EXCEPT !.status = 500, !.body = "{\"error\":\"Internal Server Error\"}"]

----------------------------------------------------------------------------
(* One request through the stack: the response, and what the handlers leave *)
(* in the aggregate, the limiter's store, the id generator and the log.     *)

Outcome(rs, stats, h, n, lines) ==
    [res |-> rs, stats |-> stats, hits |-> h, uuids |-> n, logged |-> lines]

\* Mutant of cspReport: the violation is recorded before the body is validated.
cspReportRecordsFirst(rs, r, n) ==
    LET counted == [hits EXCEPT ![r.client] = @ + 1]
        rl == limiterHeaders(rs)
    IN  IF LimiterRejects(hits[r.client])
        THEN Outcome(rateLimited(rl), violationStats, counted, n, <<>>)
        ELSE IF ~validateCSPReport(r.body)
        THEN Outcome(invalidReport(rl), logViolation(violationStats, r.body), counted, n,
                     <<LogLine("warn", "Invalid CSP report payload", rs.requestId,
                               "", 0, {})>>)
        ELSE Outcome(acceptedReport(rl), logViolation(violationStats, r.body), counted, n,
                     <<LogLine("warn", "CSP Violation", "", DirectiveOf(r.body).v,
                               0, {})>>)

\* Mutant of cspReport: a report found invalid gives its unit of quota back.
cspReportRefundsInvalid(rs, r, n) ==
    LET counted == [hits EXCEPT ![r.client] = @ + 1]
        rl == limiterHeaders(rs)
    IN  IF LimiterRejects(hits[r.client])
        THEN Outcome(rateLimited(rl), violationStats, counted, n, <<>>)
        ELSE IF ~validateCSPReport(r.body)
        THEN Outcome(invalidReport(rl), violationStats, hits, n,
                     <<LogLine("warn", "Invalid CSP report payload", rs.requestId,
                               "", 0, {})>>)
        ELSE Outcome(acceptedReport(rl), logViolation(violationStats, r.body), counted, n,
                     <<LogLine("warn", "CSP Violation", "", DirectiveOf(r.body).v,
                               0, {})>>)

\* app.post("/__cspreport__", cspLimiter, (req, res, next) => ...)
cspReport(rs, r, n) ==
    LET counted == [hits EXCEPT ![r.client] = @ + 1]
        rl == limiterHeaders(rs)
    IN  IF LimiterRejects(hits[r.client])
        THEN Outcome(rateLimited(rl), violationStats, counted, n, <<>>)
        ELSE IF ~validateCSPReport(r.body)
        THEN Outcome(invalidReport(rl), violationStats, counted, n,
                     <<LogLine("warn", "Invalid CSP report payload", rs.requestId,
                               "", 0, {})>>)
        ELSE Outcome(acceptedReport(rl), logViolation(violationStats, r.body), counted, n,
                     <<LogLine("warn", "CSP Violation", "", DirectiveOf(r.body).v,
                               0, {})>>)

\* the routes after the report receiver, in mounting order
routes(rs, r) ==
    IF r.method = "GET" /\ r.path = HealthPath THEN health(rs)
    ELSE IF r.method = "GET" /\ UnderMount(r.path) /\ StaticRedirects(r.path)
    THEN staticRedirect(rs, r.path)
    ELSE IF r.method = "GET" /\ UnderMount(r.path) /\ StaticFileFor(r.path) # <<>>
    THEN staticFile(rs, StaticFileFor(r.path))
    ELSE IF r.method = "GET" /\ FallbackMatches(r.path) THEN historyFallback(rs)
    ELSE IF r.method = "GET" /\ r.path = RootPath THEN rootRedirect(rs)
    ELSE notFound(rs)

Pipeline(r) ==
    LET n == IF Truthy(r.requestId) THEN uuids ELSE uuids + 1
        identified == helmetMiddleware(requestIdMiddleware(NoResponse, r, uuids))
    IN  IF BodyParserRaises(r)
        THEN \* next(err): every stage up to the error handler is skipped
             Outcome(errorHandler(identified), violationStats, hits, n,
                     <<LogLine("error", "Unhandled server error", identified.requestId,
                               "", 0, {})>>)
        ELSE IF IsReportPost(r)
        THEN cspReport(cspMiddleware(identified), r, n)
        ELSE Outcome(routes(cspMiddleware(identified), r), violationStats, hits, n, <<>>)

----------------------------------------------------------------------------
(* Actions.                                                                 *)

Clients == {"c1", "c2"}

Init ==
    /\ violationStats = [total |-> 0, byDirective |-> <<>>]
    /\ hits = [c \in Clients |-> 0]
    /\ posts = [c \in Clients |-> 0]
    /\ conns = [active |-> 0, idle |-> 0]
    /\ listening = TRUE
    /\ closeCallbacks = <<>>
    /\ exited = FALSE
    /\ exitCode = 0
    /\ uuids = 0
    /\ req = NoRequest
    /\ res = NoResponse
    /\ logged = <<>>
    /\ raised = ""

Quiet == req' = NoRequest /\ res' = NoResponse /\ raised' = ""

\* Mutant of Accept: a connection is accepted while the server is closing.
AcceptWhileClosing ==
    /\ ~exited
    /\ conns.active + conns.idle < MaxConns
    /\ conns' = [conns EXCEPT !.active = @ + 1]
    /\ Quiet /\ logged' = <<>>
    /\ UNCHANGED <<violationStats, hits, posts, listening, closeCallbacks,
                   exited, exitCode, uuids>>

\* the listener accepts a connection, whose first request is then in flight
Accept ==
    /\ ~exited /\ listening
    /\ conns.active + conns.idle < MaxConns
    /\ conns' = [conns EXCEPT !.active = @ + 1]
    /\ Quiet /\ logged' = <<>>
    /\ UNCHANGED <<violationStats, hits, posts, listening, closeCallbacks,
                   exited, exitCode, uuids>>

\* a kept-alive connection sends its next request
NextRequest ==
    /\ ~exited /\ conns.idle > 0
    /\ conns' = [active |-> conns.active + 1, idle |-> conns.idle - 1]
    /\ Quiet /\ logged' = <<>>
    /\ UNCHANGED <<violationStats, hits, posts, listening, closeCallbacks,
                   exited, exitCode, uuids>>

\* a kept-alive connection ends
Close ==
    /\ ~exited /\ conns.idle > 0
    /\ conns' = [conns EXCEPT !.idle = @ - 1]
    /\ Quiet /\ logged' = <<>>
    /\ UNCHANGED <<violationStats, hits, posts, listening, closeCallbacks,
                   exited, exitCode, uuids>>

\* the request in flight on some connection is r: the stack answers it
HandleRequest(r) ==
    /\ ~exited /\ conns.active > 0
    /\ LET out == Pipeline(r)
       IN  /\ out.stats.total <= MaxTotal
           /\ out.uuids <= MaxUuids
           /\ violationStats' = out.stats
           /\ hits' = out.hits
           /\ uuids' = out.uuids
           /\ res' = out.res
           /\ logged' = out.logged
    /\ req' = r
    /\ raised' = (IF BodyParserRaises(r) THEN "express.json" ELSE "")
    /\ posts' = IF IsReportPost(r) THEN [posts EXCEPT ![r.client] = @ + 1] ELSE posts
    /\ conns' = [active |-> conns.active - 1, idle |-> conns.idle + 1]
    /\ UNCHANGED <<listening, closeCallbacks, exited, exitCode>>

\* the calls of the report handler that can raise: the two logger.warn calls
\* (the log destination fails) and res.end
ThrowingCalls == {"logger.warn:invalid", "logger.warn:violation", "res.end"}

\* the report handler reaches call at on body
OnPath(at, body) ==
    IF validateCSPReport(body)
    THEN at \in {"logger.warn:violation", "res.end"}
    ELSE at = "logger.warn:invalid"

\* the report handler when its call at raises: what ran before the call stays,
\* catch (err) { next(err) } hands the error to the error handler
cspReportThrows(rs, r, n, at) ==
    LET counted == [hits EXCEPT ![r.client] = @ + 1]
        rl == limiterHeaders(rs)
        unhandled == LogLine("error", "Unhandled server error", rs.requestId, "", 0, {})
    IN  IF at = "logger.warn:invalid"
        THEN Outcome(errorHandler(rl), violationStats, counted, n, <<unhandled>>)
        ELSE IF at = "logger.warn:violation"
        THEN Outcome(errorHandler(rl), logViolation(violationStats, r.body), counted, n,
                     <<unhandled>>)
        ELSE Outcome(errorHandler(acceptedReport(rl)),
                     logViolation(violationStats, r.body), counted, n,
                     <<LogLine("warn", "CSP Violation", "", DirectiveOf(r.body).v, 0, {}),
                       unhandled>>)

\* a report is in flight, the limiter admits it, and call at of the handler raises
HandleThrowingReport(r, at) ==
    /\ ~exited /\ conns.active > 0
    /\ IsReportPost(r) /\ ~BodyParserRaises(r)
    /\ ~LimiterRejects(hits[r.client])
    /\ OnPath(at, r.body)
    /\ LET n == IF Truthy(r.requestId) THEN uuids ELSE uuids + 1
           identified == helmetMiddleware(requestIdMiddleware(NoResponse, r, uuids))
           out == cspReportThrows(cspMiddleware(identified), r, n, at)
       IN  /\ out.stats.total <= MaxTotal
           /\ out.uuids <= MaxUuids
           /\ violationStats' = out.stats
           /\ hits' = out.hits
           /\ uuids' = out.uuids
           /\ res' = out.res
           /\ logged' = out.logged
    /\ req' = r
    /\ raised' = at
    /\ posts' = [posts EXCEPT ![r.client] = @ + 1]
    /\ conns' = [active |-> conns.active - 1, idle |-> conns.idle + 1]
    /\ UNCHANGED <<listening, closeCallbacks, exited, exitCode>>

\* express-rate-limit: the window of client c is over, its count starts anew
WindowElapsed(c) ==
    /\ ~exited
    /\ hits[c] > 0 \/ posts[c] > 0
    /\ hits' = [hits EXCEPT ![c] = 0]
    /\ posts' = [posts EXCEPT ![c] = 0]
    /\ Quiet /\ logged' = <<>>
    /\ UNCHANGED <<violationStats, conns, listening, closeCallbacks,
                   exited, exitCode, uuids>>

\* setInterval(() => {...}, 60 * 60 * 1000): the hourly timer fires
Flush ==
    /\ ~exited
    /\ IF violationStats.total > 0
       THEN /\ logged' = <<LogLine("info", "CSP violations summary (last hour)", "", "",
                                   violationStats.total,
                                   ObjectFromEntries(violationStats.byDirective))>>
            /\ violationStats' = [total |-> 0, byDirective |-> <<>>]
       ELSE /\ logged' = <<>>
            /\ UNCHANGED violationStats
    /\ Quiet
    /\ UNCHANGED <<hits, posts, conns, listening, closeCallbacks,
                   exited, exitCode, uuids>>

\* Mutant of shutdown: a signal that finds the server closing exits at once.
shutdownForcesExit(signal) ==
    /\ ~exited
    /\ Len(closeCallbacks) < MaxSignals
    /\ closeCallbacks' = Append(closeCallbacks,
                                IF listening THEN "" ELSE "ERR_SERVER_NOT_RUNNING")
    /\ listening' = FALSE
    /\ exited' = ~listening
    /\ exitCode' = (IF listening THEN exitCode ELSE 1)
    /\ logged' = <<LogLine("info", signal \o " received: closing HTTP server", "", "",
                           0, {})>>
    /\ conns' = [conns EXCEPT !.idle = 0]
    /\ req' = NoRequest /\ res' = NoResponse /\ raised' = ""
    /\ UNCHANGED <<violationStats, hits, posts, uuids>>

\* Mutant of shutdown: close() leaves the kept-alive connections open.
shutdownKeepsIdle(signal) ==
    /\ ~exited
    /\ Len(closeCallbacks) < MaxSignals
    /\ closeCallbacks' = Append(closeCallbacks,
                                IF listening THEN "" ELSE "ERR_SERVER_NOT_RUNNING")
    /\ listening' = FALSE
    /\ logged' = <<LogLine("info", signal \o " received: closing HTTP server", "", "",
                           0, {})>>
    /\ Quiet
    /\ UNCHANGED <<violationStats, hits, posts, conns, exited, exitCode, uuids>>

\* shutdown(signal): server.close(cb).  The listener stops at once, and the
\* connections with no request in flight are closed before close() returns
\* (http.Server.close() of Node 19 and later; the build targets node20).
\* Called on a server that is no longer listening, close() hands cb an
\* ERR_SERVER_NOT_RUNNING error; either way cb waits for the 'close' event
shutdown(signal) ==
    /\ ~exited
    /\ Len(closeCallbacks) < MaxSignals
    /\ closeCallbacks' = Append(closeCallbacks,
                                IF listening THEN "" ELSE "ERR_SERVER_NOT_RUNNING")
    /\ listening' = FALSE
    /\ conns' = [conns EXCEPT !.idle = 0]
    /\ logged' = <<LogLine("info", signal \o " received: closing HTTP server", "", "",
                           0, {})>>
    /\ Quiet
    /\ UNCHANGED <<violationStats, hits, posts, exited, exitCode, uuids>>

\* the server emits 'close' once it listens no more and its last connection
\* has ended; the first callback registered runs first, and exits
EmitClose ==
    /\ ~exited
    /\ ~listening /\ conns.active = 0 /\ conns.idle = 0
    /\ closeCallbacks # <<>>
    /\ exited' = TRUE
    /\ exitCode' = (IF Head(closeCallbacks) # "" THEN 1 ELSE 0)
    /\ logged' = (IF Head(closeCallbacks) # ""
                  THEN <<LogLine("error", "Error during server close", "", "", 0, {})>>
                  ELSE <<LogLine("info", "HTTP server closed", "", "", 0, {})>>)
    /\ Quiet
    /\ UNCHANGED <<violationStats, hits, posts, conns, listening, closeCallbacks, uuids>>

----------------------------------------------------------------------------
(* The requests sent to the server.                                         *)

Signals == {"SIGTERM", "SIGINT"}

\* values of "violated-directive": absent, empty, two names, and a number
\* whose string form is one of the names
DirectiveValues ==
    {JsUndefined, JsString(""), JsString("script-src"), JsString("1"), JsNumber("1")}

\* values under "csp-report" / "csp_report": absent, null, a string, an array,
\* an object
NestedValues ==
    {Prim(JsUndefined), Prim(JsNull), Prim(JsString("x")), JsArray}
        \cup {JsObject(d) : d \in DirectiveValues}

ReportBodies ==
    {NoBody, MalformedBody, ArrayBody}
        \cup {ObjectBody(cr, cu) : cr \in NestedValues, cu \in NestedValues}

ScriptSrcReport == ObjectBody(JsObject(JsString("script-src")), Prim(JsUndefined))
FooBarBody == ObjectBody(Prim(JsUndefined), Prim(JsUndefined))

Paths ==
    {RootPath, HealthPath, ReportPath,
     Path(<<"quiz">>, FALSE), Path(<<"quiz">>, TRUE),
     Path(<<"quiz", "index.html">>, FALSE),
     Path(<<"quiz", "assets", "app.js">>, FALSE),
     Path(<<"quiz", "assets">>, FALSE), Path(<<"quiz", "assets">>, TRUE),
     Path(<<"quiz", "some", "route">>, FALSE),
     Path(<<"other">>, FALSE)}

\* x-request-id: absent, empty, a value, and a value the server could generate
RequestIds == {JsUndefined, JsString(""), JsString("abc"), JsString("uuid-1")}

SomeRoute == Path(<<"quiz", "some", "route">>, FALSE)

\* every method on every path, without a body
RouteRequests ==
    {Request("c1", m, p, JsString("abc"), NoBody) : m \in {"GET", "POST"}, p \in Paths}

\* a body that does not parse, on four routes
MalformedRequests ==
    {Request("c1", "GET", p, JsString("abc"), MalformedBody) :
        p \in {HealthPath, SomeRoute, RootPath}}
        \cup {Request("c1", "POST", ReportPath, JsString("abc"), MalformedBody)}

\* every request id, on a route, on the report receiver and on a parse error
IdRequests ==
    {Request("c1", "GET", HealthPath, id, b) :
        id \in RequestIds, b \in {NoBody, MalformedBody}}
        \cup {Request("c1", "POST", ReportPath, id, FooBarBody) : id \in RequestIds}

Requests == RouteRequests \cup MalformedRequests \cup IdRequests

\* reports of every shape from one client, and a report from another
ReportRequests ==
    {Request("c1", "POST", ReportPath, JsString("abc"), b) : b \in ReportBodies}
        \cup {Request("c2", "POST", ReportPath, JsString("abc"), ScriptSrcReport)}

\* the traffic during a shutdown: a probe and a report
ShutdownRequests ==
    {Request("c1", "GET", HealthPath, JsString("abc"), NoBody),
     Request("c1", "POST", ReportPath, JsString("abc"), ScriptSrcReport)}

\* reports that land on one key of the Map, on keys with the same string
\* form, and on "unknown"; a report with a string beside the object; an
\* invalid and an unparsable body
AggregateBodies ==
    {ScriptSrcReport,
     ObjectBody(JsObject(JsString("1")), Prim(JsUndefined)),
     ObjectBody(Prim(JsUndefined), JsObject(JsNumber("1"))),
     ObjectBody(JsObject(JsUndefined), Prim(JsUndefined)),
     ObjectBody(Prim(JsString("x")), JsObject(JsString("script-src"))),
     FooBarBody, MalformedBody}

AggregateRequests ==
    {Request("c1", "POST", ReportPath, JsString("abc"), b) : b \in AggregateBodies}

\* a client that reports until its quota is spent
LimiterRequests ==
    {Request("c1", "POST", ReportPath, JsString("abc"), b) :
        b \in {ScriptSrcReport, FooBarBody, MalformedBody}}

----------------------------------------------------------------------------
(* Specifications.                                                          *)

\* the model's bound on the reports of one client in one window
FewPosts(r) == IsReportPost(r) => posts[r.client] < MaxPosts

Serve == \E r \in Requests : FewPosts(r) /\ HandleRequest(r)

ServeReports == \E r \in ReportRequests : FewPosts(r) /\ HandleRequest(r)

ServeLimiter ==
    \E r \in LimiterRequests :
        /\ IF BodyParserRaises(r)
           THEN posts[r.client] - hits[r.client] < MaxMalformed
           ELSE hits[r.client] < RateLimitMax + MaxOver
        /\ HandleRequest(r)

Timers == Flush \/ \E c \in Clients : WindowElapsed(c)

Lifecycle == Accept \/ NextRequest \/ Close \/ (\E s \in Signals : shutdown(s)) \/ EmitClose

\* every route of the server
Next == Serve \/ Timers \/ Lifecycle
Spec == Init /\ [][Next]_vars

\* the report receiver and the aggregate
NextReports == ServeReports \/ Timers \/ Lifecycle
SpecReports == Init /\ [][NextReports]_vars

\* the rate limiter up to its quota and beyond
NextLimiter == ServeLimiter \/ Timers \/ Lifecycle
SpecLimiter == Init /\ [][NextLimiter]_vars

\* the report receiver when calls of its handler raise
ServeFaults == \E r \in LimiterRequests : FewPosts(r) /\ HandleRequest(r)
Throwing ==
    \E r \in LimiterRequests, at \in ThrowingCalls : FewPosts(r) /\ HandleThrowingReport(r, at)
NextFaults == ServeFaults \/ Throwing \/ Timers \/ Lifecycle
SpecFaults == Init /\ [][NextFaults]_vars

\* the aggregate under reports, raising calls and flushes
ServeAggregate == \E r \in AggregateRequests : FewPosts(r) /\ HandleRequest(r)
ThrowingAggregate ==
    \E r \in AggregateRequests, at \in ThrowingCalls :
        FewPosts(r) /\ HandleThrowingReport(r, at)
NextAggregate == ServeAggregate \/ ThrowingAggregate \/ Timers \/ Lifecycle
SpecAggregate == Init /\ [][NextAggregate]_vars

\* the shutdown, with the scheduling of the event loop: a request in flight is
\* answered, and 'close' is emitted once the server has drained
ServeShutdown == \E r \in ShutdownRequests : FewPosts(r) /\ HandleRequest(r)
NextShutdown == ServeShutdown \/ Timers \/ Lifecycle
SpecShutdown ==
    Init /\ [][NextShutdown]_vars /\ WF_vars(ServeShutdown) /\ WF_vars(EmitClose)

----------------------------------------------------------------------------
(* The claims.  A step that handles a request leaves it in req and its      *)
(* response in res; every other step leaves NoRequest and NoResponse.       *)

Responded == res.status # 0

\* C1: every response carries exactly one Content-Security-Policy header, the
\* enforced one or the report-only one, never both and never neither -- the
\* responses of the error handler after a body-parse failure included.
C1_ExactlyOneCspHeader ==
    Responded => ((res.csp # "") # (res.cspReportOnly # ""))

\* C2: a response whose body is the entry document index.html carries a
\* Cache-Control that includes no-store, however the document came to be served.
C2_EntryDocumentNoStore ==
    (Responded /\ res.body = "index.html") => "no-store" \in res.cacheControl

\* C3: GET /health is answered 200 {"status":"ok"}, whatever headers or body
\* come with the request and whatever the server's state.
C3_HealthAlwaysOk ==
    (Responded /\ req.method = "GET" /\ req.path = HealthPath)
        => (res.status = 200 /\ res.body = "{\"status\":\"ok\"}")

\* C4: of the POSTs a client sends to /__cspreport__ within one window, the
\* first 100 are not rejected by the rate limiter, and the 101st and every
\* later one is answered with the rate-limit rejection; after the window has
\* elapsed (the count of the client's POSTs starts anew) they pass again.
C4_QuotaPerWindow ==
    (Responded /\ IsReportPost(req))
        => (res.status = 429 <=> posts[req.client] > RateLimitMax)

\* the nested object that makes a body a valid report: the value under
\* "csp-report" if that is an object, else the value under "csp_report"
ReportOf(body) ==
    IF Truthy(body.cr) /\ TypeOf(body.cr) = "object" THEN body.cr ELSE body.cu

\* its violated-directive; "unknown" when it has none (or an empty one)
ReportedDirective(body) ==
    IF Truthy(ViolatedDirectiveOf(ReportOf(body)))
    THEN ViolatedDirectiveOf(ReportOf(body))
    ELSE JsString("unknown")

KeysOf(m) == {m[i].key : i \in 1..Len(m)}

\* the request of this step is a POST to /__cspreport__ whose body parsed and
\* which the limiter admits: the client's hits stay within the quota
AdmittedReportStep ==
    /\ res'.status # 0
    /\ IsReportPost(req')
    /\ req'.body.kind # "malformed"
    /\ hits[req'.client] < RateLimitMax

\* C5: a POST to /__cspreport__ that the limiter admits and whose body passes
\* validation is answered 204, adds 1 to total and 1 to the count of the
\* report's violated-directive ("unknown" when it has none), and changes no
\* other count.
C5_AcceptedReportCounted ==
    [][(AdmittedReportStep /\ validateCSPReport(req'.body))
        => /\ res'.status = 204
           /\ violationStats'.total = violationStats.total + 1
           /\ \A k \in KeysOf(violationStats.byDirective)
                        \cup KeysOf(violationStats'.byDirective)
                        \cup {ReportedDirective(req'.body)} :
                  MapGet(violationStats'.byDirective, k)
                      = MapGet(violationStats.byDirective, k)
                          + (IF k = ReportedDirective(req'.body) THEN 1 ELSE 0)]_vars

\* a parsed body that holds no nested object, as {"foo":"bar"}: neither key
\* holds an object or an array
HoldsNoNestedValue(body) ==
    /\ body.kind # "malformed"
    /\ body.cr.t \notin {"object", "array"}
    /\ body.cu.t \notin {"object", "array"}

InvalidReportStep ==
    /\ res'.status # 0
    /\ IsReportPost(req')
    /\ HoldsNoNestedValue(req'.body)

\* C6, as claimed: a POST to /__cspreport__ whose parsed body does not pass
\* validation is answered 400 with an error payload, and leaves the aggregate
\* as it was.
C6_InvalidReportRejected ==
    [][InvalidReportStep
        => /\ res'.status = 400
           /\ res'.body = "{\"error\":\"invalid csp report\"}"
           /\ violationStats' = violationStats]_vars

\* C6, amended: such a POST is answered 400 with an error payload when the
\* limiter admits it, and with the rate-limit rejection when the client's
\* quota is spent; either way the aggregate is as it was.
C6_InvalidReportRejectedWithinQuota ==
    [][InvalidReportStep
        => /\ IF hits[req'.client] < RateLimitMax
              THEN /\ res'.status = 400
                   /\ res'.body = "{\"error\":\"invalid csp report\"}"
              ELSE res'.status = 429
           /\ violationStats' = violationStats]_vars

\* Witness of C6: {"foo":"bar"} was answered 400 while the aggregate held a
\* violation.
C6_Witness ==
    /\ IsReportPost(req) /\ req.body = FooBarBody
    /\ res.status = 400
    /\ violationStats.total > 0

\* a JSON object that holds a nested JSON object under one of the two keys
HoldsNestedObject(body) ==
    /\ body.kind = "object"
    /\ body.cr.t = "object" \/ body.cu.t = "object"

\* C7: a report body is accepted if and only if it is a JSON object holding a
\* nested object under "csp-report" or under "csp_report"; here on the reports
\* the limiter let through, which are answered 204 when accepted and 400 when
\* not.
C7_AcceptedIffNestedObject ==
    (IsReportPost(req) /\ res.status \in {204, 400})
        => (res.status = 204 <=> HoldsNestedObject(req.body))

\* the summary's breakdown holds every entry of the Map, and nothing else
BreakdownEquals(object, m) ==
    /\ \A i \in 1..Len(m) : [k |-> m[i].key.v, n |-> m[i].count] \in object
    /\ Cardinality(object) = Len(m)

\* C8: when the hourly timer fires after a violation was recorded, exactly one
\* summary is emitted, with the total and the breakdown of the aggregate, and
\* the aggregate is then zero and empty; when none was recorded, nothing is
\* emitted and the aggregate stays.
C8_FlushEmitsAggregate ==
    [][Flush
        => IF violationStats.total > 0
           THEN /\ Len(logged') = 1
                /\ logged'[1].msg = "CSP violations summary (last hour)"
                /\ logged'[1].total = violationStats.total
                /\ BreakdownEquals(logged'[1].byDirective, violationStats.byDirective)
                /\ violationStats' = [total |-> 0, byDirective |-> <<>>]
           ELSE /\ logged' = <<>>
                /\ violationStats' = violationStats]_vars

\* the identifiers generated so far
Generated == {randomUUID(k).v : k \in 1..uuids}

\* C9: every response carries a correlation id: the inbound x-request-id when
\* the request supplies one (an empty header supplies none), else a generated
\* identifier that no earlier request was given.
C9_CorrelationId ==
    [][res'.status # 0
        => /\ res'.requestId # ""
           /\ Truthy(req'.requestId) => res'.requestId = req'.requestId.v
           /\ ~Truthy(req'.requestId)
                => /\ res'.requestId \in Generated'
                   /\ res'.requestId \notin Generated]_vars

\* Witness of C9: a second request without x-request-id got the second
\* generated identifier.
C9_Witness ==
    /\ Responded /\ req.requestId = JsUndefined
    /\ uuids = 2 /\ res.requestId = randomUUID(2).v

\* C10: the process exits only once the listener is closed and no connection
\* is left, however many signals arrived during the drain.
C10_ExitOnlyWhenDrained ==
    exited => (~listening /\ conns.active = 0 /\ conns.idle = 0)

\* Witness of C10: the process has exited after two signals.
C10_Witness == exited /\ Len(closeCallbacks) = 2 /\ exitCode = 0

\* the latest step delivered a termination signal
SignalReceived ==
    /\ Len(logged) = 1
    /\ logged[1].msg \in {sig \o " received: closing HTTP server" : sig \in Signals}

\* C11: if a termination signal is received while no request is in flight, the
\* process eventually exits, and its exit status is 0.
C11_SignalWhenIdleExitsZero ==
    (SignalReceived /\ conns.active = 0) ~> (exited /\ exitCode = 0)

\* Witness of C11: a signal has arrived after a report was served, no request
\* is in flight, and the process has not exited yet.
C11_Witness ==
    /\ SignalReceived /\ conns.active = 0 /\ ~exited
    /\ violationStats.total > 0

\* C12: once shutdown has begun, no connection is accepted: the listener stays
\* closed, the number of open connections never grows, and a request that is
\* handled, or that adds to the aggregate, was in flight on a connection that
\* was open already.
C12_NoNewConnectionAfterShutdown ==
    [][~listening
        => /\ ~listening'
           /\ conns'.active + conns'.idle <= conns.active + conns.idle
           /\ (res'.status # 0 \/ violationStats'.total > violationStats.total)
                => conns.active > 0]_vars

\* Witness of C12: the server is closing with room for a connection, and has
\* just answered a request of a connection it had.
C12_Witness ==
    /\ ~listening /\ ~exited /\ Responded
    /\ conns.active + conns.idle < MaxConns

\* C13: an error raised in a stage before the terminal handler -- a body that
\* does not parse or exceeds the limit, an exception thrown inside the report
\* handler -- is answered 500 with the payload {"error":"Internal Server
\* Error"}, and the request leaves the aggregate as it was.
C13_RaisedErrorAnswered500 ==
    [][raised' # ""
        => /\ res'.status = 500
           /\ res'.body = "{\"error\":\"Internal Server Error\"}"
           /\ violationStats' = violationStats]_vars

\* the path is under the mount path /quiz/ and names no file of the asset set
UnmatchedUnderMount(path) == FallbackMatches(path) /\ StaticFileFor(path) = <<>>

\* C14: every request (GET, the method of the routes) for a path under /quiz/
\* that matches no file of the static asset set is answered with the entry
\* document, and a request for the root path / is answered with a redirect
\* to /quiz/.
C14_FallbackAndRootRedirect ==
    (Responded /\ req.method = "GET")
        => /\ UnmatchedUnderMount(req.path)
                => (res.status = 200 /\ res.body = "index.html")
           /\ req.path = RootPath
                => (res.status \in {301, 302} /\ res.location = "/quiz/")

\* the files of the build output other than index.html, as response bodies
AssetBodies == {Join(f, "/") : f \in {g \in StaticFiles : g[Len(g)] # "index.html"}}

\* C15: a response serving a static asset other than index.html carries a
\* Cache-Control max-age of one day (86400 seconds) and neither no-store nor
\* no-cache.
C15_AssetCachedOneDay ==
    (res.status = 200 /\ res.body \in AssetBodies)
        => /\ "max-age=86400" \in res.cacheControl
           /\ "no-store" \notin res.cacheControl
           /\ "no-cache" \notin res.cacheControl
           /\ \A d \in res.cacheControl : d \in {"public", "max-age=86400"}

\* Witness of C15: the script of the build output has been served.
C15_Witness ==
    /\ req.method = "GET" /\ req.path = Path(<<"quiz", "assets", "app.js">>, FALSE)
    /\ res.status = 200 /\ res.body = "assets/app.js"

\* the first position at or after i where sep occurs in s (Len(s) + 1 when
\* there is none)
RECURSIVE IndexOf(_, _, _)
IndexOf(s, sep, i) ==
    IF i + Len(sep) - 1 > Len(s) THEN Len(s) + 1
    ELSE IF SubSeq(s, i, i + Len(sep) - 1) = sep THEN i
    ELSE IndexOf(s, sep, i + 1)

\* the text of s before the first occurrence of sep (all of s when there is none)
Before(s, sep) == SubSeq(s, 1, IndexOf(s, sep, 1) - 1)

\* the pieces of s from position i on, between the occurrences of sep
RECURSIVE SplitFrom(_, _, _)
SplitFrom(s, sep, i) ==
    LET j == IndexOf(s, sep, i)
    IN  IF j > Len(s) THEN <<SubSeq(s, i, Len(s))>>
        ELSE <<SubSeq(s, i, j - 1)>> \o SplitFrom(s, sep, j + Len(sep))

\* a policy as a browser reads it: its directives, and their names
DirectivesOf(policy) == SplitFrom(policy, "; ", 1)
DirectiveNamesOf(policy) ==
    LET ds == DirectivesOf(policy)
    IN  [i \in 1..Len(ds) |-> Before(ds[i], " ")]

\* the response carries the policy of the server's own middleware: Express
\* answers an unmatched route (404) and a directory redirect (301) itself,
\* with a policy of its own
CarriesBuiltPolicy == Responded /\ res.csp # "" /\ res.status \notin {301, 404}

ReportUriLast ==
    LET ds == DirectivesOf(res.csp)
    IN  ds[Len(ds)] = "report-uri /__cspreport__"

\* C16, as claimed: the policy is built from exactly these directives, in this
\* order: default-src, base-uri, object-src, img-src, font-src, style-src,
\* script-src, connect-src, worker-src, media-src, form-action,
\* frame-ancestors, manifest-src, upgrade-insecure-requests, trusted-types,
\* report-uri; report-uri is last and points at /__cspreport__.
C16_PolicyDirectives ==
    CarriesBuiltPolicy
        => /\ DirectiveNamesOf(res.csp) =
                <<"default-src", "base-uri", "object-src", "img-src", "font-src",
                  "style-src", "script-src", "connect-src", "worker-src",
                  "media-src", "form-action", "frame-ancestors", "manifest-src",
                  "upgrade-insecure-requests", "trusted-types", "report-uri">>
           /\ ReportUriLast

\* C16, amended: the policy is built from exactly these directives, in this
\* order: the sixteen of the claim with child-src between
\* upgrade-insecure-requests and trusted-types; report-uri is last and points
\* at /__cspreport__.
C16_PolicyDirectivesWithChildSrc ==
    CarriesBuiltPolicy
        => /\ DirectiveNamesOf(res.csp) =
                <<"default-src", "base-uri", "object-src", "img-src", "font-src",
                  "style-src", "script-src", "connect-src", "worker-src",
                  "media-src", "form-action", "frame-ancestors", "manifest-src",
                  "upgrade-insecure-requests", "child-src", "trusted-types",
                  "report-uri">>
           /\ ReportUriLast

\* Witness of C16: the entry document has been served with the policy.
C16_Witness ==
    /\ CarriesBuiltPolicy /\ res.status = 200 /\ res.body = "index.html"
    /\ Len(DirectivesOf(res.csp)) = 17

\* the request of this step is a POST to /__cspreport__ that reached the
\* limiter: its body parsed
ReachedLimiterStep ==
    /\ res'.status # 0
    /\ IsReportPost(req')
    /\ ~BodyParserRaises(req')

\* C17: a POST to /__cspreport__ rejected by the rate limiter changes nothing
\* in the aggregate and produces no log line; and every POST to
\* /__cspreport__ that reaches the limiter consumes one unit of the client's
\* quota, and of no other client's, whether it is then accepted (204), found
\* invalid (400) or rejected.
C17_RejectionSilentAndQuotaConsumed ==
    [][ReachedLimiterStep
        => /\ res'.status \in {204, 400, 429}
           /\ res'.status = 429 => (violationStats' = violationStats /\ logged' = <<>>)
           /\ hits' = [hits EXCEPT ![req'.client] = @ + 1]]_vars

\* Witness of C17: a report is rejected, its hit counted beyond the quota,
\* while the aggregate holds violations.
C17_Witness ==
    /\ IsReportPost(req) /\ res.status = 429
    /\ violationStats.total > 0
    /\ hits[req.client] > RateLimitMax

\* the sum of the counts of a Map
RECURSIVE SumCounts(_)
SumCounts(m) == IF m = <<>> THEN 0 ELSE Head(m).count + SumCounts(Tail(m))

\* C18: in every reachable state, total equals the sum of the counts in
\* byDirective, every stored count is at least 1, and total is 0 exactly when
\* the Map is empty.
C18_TotalIsSumOfCounts ==
    /\ violationStats.total = SumCounts(violationStats.byDirective)
    /\ \A i \in 1..Len(violationStats.byDirective) :
           violationStats.byDirective[i].count >= 1
    /\ violationStats.total = 0 <=> violationStats.byDirective = <<>>

\* Witness of C18: one directive has been counted twice.
C18_Witness ==
    /\ violationStats.total = 2
    /\ Len(violationStats.byDirective) = 1
    /\ violationStats.byDirective[1].count = 2

\* the summary this step emitted, if any
SummaryEmitted ==
    Len(logged') = 1 /\ logged'[1].msg = "CSP violations summary (last hour)"

\* what this step adds to the three sides of the ledger -- reports answered
\* 204, violations listed in summaries, violations held by the aggregate --
\* in all and for the directive named d (a summary names a directive by its
\* string form)
AcceptedNow == IF res'.status = 204 THEN 1 ELSE 0
AcceptedNowFor(d) ==
    IF res'.status = 204 /\ ReportedDirective(req'.body).v = d THEN 1 ELSE 0
EmittedNow == IF SummaryEmitted THEN logged'[1].total ELSE 0
EmittedNowFor(d) ==
    IF SummaryEmitted /\ \E e \in logged'[1].byDirective : e.k = d
    THEN (CHOOSE e \in logged'[1].byDirective : e.k = d).n
    ELSE 0
RECURSIVE HeldFor(_, _)
HeldFor(m, d) ==
    IF m = <<>> THEN 0
    ELSE (IF Head(m).key.v = d THEN Head(m).count ELSE 0) + HeldFor(Tail(m), d)

DirectiveNames ==
    {k.v : k \in KeysOf(violationStats.byDirective)
                    \cup KeysOf(violationStats'.byDirective)
                    \cup {ReportedDirective(req'.body)}}

\* C19: no accepted report is lost or counted twice across flushes: the number
\* of reports answered 204 so far equals the sum of the totals of the
\* summaries emitted so far plus the current total, and the same holds per
\* directive.  The equations hold at the start (0 = 0 + 0), so they hold
\* always exactly when every step adds the same to both sides.
C19_NoReportLostOrDoubled ==
    [][/\ AcceptedNow = EmittedNow + violationStats'.total - violationStats.total
       /\ \A d \in DirectiveNames :
              AcceptedNowFor(d)
                  = EmittedNowFor(d) + HeldFor(violationStats'.byDirective, d)
                                     - HeldFor(violationStats.byDirective, d)]_vars

\* C20: for every accepted report, the directive that is counted is the
\* violated-directive of the nested object that made validation succeed: when
\* the body holds both keys and only one of them is an object, the directive
\* is taken from that object and not from the other key's value.
C20_DirectiveOfValidatedObject ==
    [][res'.status = 204
        => /\ MapGet(violationStats'.byDirective, ReportedDirective(req'.body))
                = MapGet(violationStats.byDirective, ReportedDirective(req'.body)) + 1
           /\ logged'[1].directive = ReportedDirective(req'.body).v]_vars

====
